---- MODULE Spec2Model ----
(***************************************************************************)
(* ResponsiveDialog (the responsive container selector) rendered through   *)
(* the Dialog / Drawer primitives of responsive-dialog.test.tsx            *)
(* (src/unnamed/part_000).  A rendered tree is a DOM-like record tree; the *)
(* operations are the ones the test file performs on a mounted instance:   *)
(* render, rerender with new props, a change of the useIsMobile value      *)
(* followed by a rerender, a click on the container, jest.clearAllMocks.   *)
(***************************************************************************)
EXTENDS Naturals, Sequences, FiniteSets

\* ------------------------------------------------------------------ bounds

\* most body nodes handed over as children
MaxChildren == 2

\* most recorded calls of the callbacks between two jest.clearAllMocks
MaxCalls == 2

\* longest title / description text of the renders that vary only the texts
MaxLongTextLen == 3

\* renders of one mounted component between two resets of the hook mock's calls
MaxRenders == 3

\* requests served by the agents Page in one run
MaxRequests == 2

\* ------------------------------------------------------------------ values

\* characters a title or description is made of: a letter and a
\* markup-special character of 'Title with <>&"\''
Chars == {"A", "<"}

RECURSIVE SeqsUpTo(_, _)
SeqsUpTo(S, n) ==
    IF n = 0 THEN {<<>>}
    ELSE LET shorter == SeqsUpTo(S, n - 1)
         IN  shorter \cup {Append(s, c) : s \in {t \in shorter : Len(t) = n - 1}, c \in S}

\* the titles and descriptions of the renders that vary every prop: the empty
\* text and the one-character texts (longer ones: LongTexts)
Texts == {<<>>} \cup {<<c>> : c \in Chars}

Undefined == "undefined"

NoError == "none"

\* the callbacks a caller hands over as onOpenChange: none, a plain jest.fn(),
\* and the jest.fn that throws
Callbacks == {Undefined, "onOpenChange", "faultyCallback"}

\* the elements of a sequence
Range(s) == {s[i] : i \in DOMAIN s}

\* ------------------------------------------------------------------- nodes

NoHandler == [present |-> FALSE, fn |-> Undefined, arg |-> FALSE]

El(tag, testid, className, dataOpen, onClick, kids) ==
    [tag |-> tag, testid |-> testid, className |-> className,
     dataOpen |-> dataOpen, onClick |-> onClick, text |-> <<>>, kids |-> kids]

TextNode(s) ==
    [tag |-> "#text", testid |-> "", className |-> "",
     dataOpen |-> "", onClick |-> NoHandler, text |-> s, kids |-> <<>>]

\* {children} where children is a string: one text node, none for ""
RenderText(s) == IF s = <<>> THEN <<>> ELSE <<TextNode(s)>>

\* data-open={open}: the attribute holds the boolean's string form
BoolAttr(b) == IF b THEN "true" ELSE "false"

\* --------------------------------------------------------------- callbacks

\* jest.fn(): the call is recorded first, then the implementation runs; the
\* implementation of faultyCallback throws Error('Callback error')
JestFn(fn, arg, log) ==
    [calls |-> Append(log, [fn |-> fn, arg |-> arg]),
     error |-> IF fn = "faultyCallback" THEN "Callback error" ELSE NoError]

\* variant of OnClickClosure: the closure hands over open instead of !open
OnClickClosureSameState(onOpenChange, open) ==
    [present |-> TRUE, fn |-> onOpenChange, arg |-> open]

\* the closure () => onOpenChange?.(!open) a container is given as onClick
OnClickClosure(onOpenChange, open) ==
    [present |-> TRUE, fn |-> onOpenChange, arg |-> ~open]

\* variant of InvokeOptional: onOpenChange(arg) without the ?. guard, a
\* TypeError when onOpenChange is undefined
InvokeNonOptional(h, log) ==
    IF ~h.present THEN [calls |-> log, error |-> NoError]
    ELSE IF h.fn = Undefined THEN [calls |-> log, error |-> "TypeError"]
    ELSE JestFn(h.fn, h.arg, log)

\* variant of InvokeOptional: the call sits in a try/catch that drops what
\* the callback throws
InvokeOptionalCaught(h, log) ==
    IF ~h.present \/ h.fn = Undefined
    THEN [calls |-> log, error |-> NoError]
    ELSE [calls |-> JestFn(h.fn, h.arg, log).calls, error |-> NoError]

\* running the closure: onOpenChange?.(arg) does nothing when onOpenChange is
\* undefined, and otherwise calls it; what the call throws is not caught
InvokeOptional(h, log) ==
    IF ~h.present \/ h.fn = Undefined
    THEN [calls |-> log, error |-> NoError]
    ELSE JestFn(h.fn, h.arg, log)

\* ----------------------------------------------- the mocked UI primitives

Dialog(children, open, onOpenChange) ==
    El("div", "dialog", "", BoolAttr(open), OnClickClosure(onOpenChange, open), children)

\* variant of DialogContent: only the first child is rendered
DialogContentFirstOnly(children) ==
    El("div", "dialog-content", "", "", NoHandler, SubSeq(children, 1, 1))

DialogContent(children) == El("div", "dialog-content", "", "", NoHandler, children)

DialogHeader(children) == El("div", "dialog-header", "", "", NoHandler, children)

RECURSIVE EscapeMarkup(_)
\* a text with its markup-special characters written as entities
EscapeMarkup(s) ==
    IF s = <<>> THEN <<>>
    ELSE (IF Head(s) = "<" THEN <<"&", "l", "t", ";">> ELSE <<Head(s)>>)
         \o EscapeMarkup(Tail(s))

\* variant of DialogTitle: the title is shown entity-escaped
DialogTitleEscaped(children) ==
    El("h1", "dialog-title", "", "", NoHandler, RenderText(EscapeMarkup(children)))

DialogTitle(children) == El("h1", "dialog-title", "", "", NoHandler, RenderText(children))

DialogDescription(children) ==
    El("p", "dialog-description", "", "", NoHandler, RenderText(children))

\* variant of Drawer: data-open is written as a constant
DrawerAlwaysOpen(children, open, onOpenChange) ==
    El("div", "drawer", "", "true", OnClickClosure(onOpenChange, open), children)

Drawer(children, open, onOpenChange) ==
    El("div", "drawer", "", BoolAttr(open), OnClickClosure(onOpenChange, open), children)

\* variant of DrawerContent: {children} is left out
DrawerContentEmpty(children) == El("div", "drawer-content", "", "", NoHandler, <<>>)

DrawerContent(children) == El("div", "drawer-content", "", "", NoHandler, children)

\* variant of DrawerHeader: {children} is left out
DrawerHeaderEmpty(children) == El("div", "drawer-header", "", "", NoHandler, <<>>)

DrawerHeader(children) == El("div", "drawer-header", "", "", NoHandler, children)

\* variant of DrawerTitle: a second-rank heading
DrawerTitleH2(children) == El("h2", "drawer-title", "", "", NoHandler, RenderText(children))

DrawerTitle(children) == El("h1", "drawer-title", "", "", NoHandler, RenderText(children))

\* variant of DrawerDescription: {children} is left out
DrawerDescriptionEmpty(children) == El("p", "drawer-description", "", "", NoHandler, <<>>)

DrawerDescription(children) ==
    El("p", "drawer-description", "", "", NoHandler, RenderText(children))

\* ------------------------------------------------------------ body content

ChildTestIds == <<"child-1", "child-2", "child-3", "child-4">>

\* one body node: <div data-testid="child-i">...</div>
Child(i) == El("div", ChildTestIds[i], "", "", NoHandler, <<TextNode(<<"A">>)>>)

\* the bodies a caller hands over: none (null), one node, several nodes, in
\* ascending or in descending order of their ids
Bodies ==
    {[i \in 1..k |-> Child(i)] : k \in 0..MaxChildren}
    \cup {[i \in 1..k |-> Child(k + 1 - i)] : k \in 0..MaxChildren}

\* ---------------------------------------------------- the selector itself

\* ResponsiveDialog: the drawer variant when the viewport signal says
\* compact, with the body in a padded region; the dialog variant otherwise
ResponsiveDialog(p, isMobile) ==
    IF isMobile
    THEN Drawer(
            <<DrawerContent(
                <<DrawerHeader(<<DrawerTitle(p.title), DrawerDescription(p.description)>>),
                  El("div", "", "p-4", "", NoHandler, p.children)>>)>>,
            p.open, p.onOpenChange)
    ELSE Dialog(
            <<DialogContent(
                <<DialogHeader(<<DialogTitle(p.title), DialogDescription(p.description)>>)>>
                \o p.children)>>,
            p.open, p.onOpenChange)

\* ------------------------------------------------------------------- state

VARIABLES
    mockReturn,   \* what mockUseIsMobile is set to return
    props,        \* the props of the mounted ResponsiveDialog
    tree,         \* the rendered tree of the mounted ResponsiveDialog
    calls,        \* the recorded calls of the callbacks, oldest first
    error,        \* what the last operation threw at whoever triggered it
    lastEvent     \* the last operation: "render", "viewport", "click" or "clear"

vars == <<mockReturn, props, tree, calls, error, lastEvent>>

PropsSet ==
    [title : Texts, description : Texts, children : Bodies,
     open : BOOLEAN, onOpenChange : Callbacks]

\* variant of UseIsMobile: the configured return value is not applied and the
\* hook answers as the matchMedia stub does (matches: false)
UseIsMobileDefault(configured) == FALSE

\* the value useIsMobile() returns to the component in a render
UseIsMobile(configured) == configured

\* the props a rerender hands over: the mounted ones with one prop replaced
\* (rerender(<ResponsiveDialog {...defaultProps} open={false} />))
NextProps(p) ==
    {[p EXCEPT !.title = t] : t \in Texts}
    \cup {[p EXCEPT !.description = t] : t \in Texts}
    \cup {[p EXCEPT !.children = c] : c \in Bodies}
    \cup {[p EXCEPT !.open = o] : o \in BOOLEAN}
    \cup {[p EXCEPT !.onOpenChange = f] : f \in Callbacks}

\* render(<ResponsiveDialog {...props} />) under some mocked viewport value
Init ==
    /\ mockReturn \in BOOLEAN
    /\ props \in PropsSet
    /\ tree = ResponsiveDialog(props, UseIsMobile(mockReturn))
    /\ calls = <<>>
    /\ error = NoError
    /\ lastEvent = "render"

\* variant of Rerender: a render reports the open value it was given to the
\* callback
RerenderNotifying ==
    \E p \in NextProps(props) :
        /\ props' = p
        /\ tree' = ResponsiveDialog(p, UseIsMobile(mockReturn))
        /\ error' = NoError
        /\ lastEvent' = "render"
        /\ calls' = IF Len(calls) < MaxCalls /\ p.onOpenChange # Undefined
                    THEN Append(calls, [fn |-> p.onOpenChange, arg |-> p.open])
                    ELSE calls
        /\ UNCHANGED mockReturn

\* rerender(<ResponsiveDialog {...p} />)
Rerender ==
    \E p \in NextProps(props) :
        /\ props' = p
        /\ tree' = ResponsiveDialog(p, UseIsMobile(mockReturn))
        /\ error' = NoError
        /\ lastEvent' = "render"
        /\ UNCHANGED <<mockReturn, calls>>

\* mockUseIsMobile.mockReturnValue(b); rerender(<ResponsiveDialog {...props} />)
ViewportChange ==
    \E b \in BOOLEAN :
        /\ b # mockReturn
        /\ mockReturn' = b
        /\ tree' = ResponsiveDialog(props, UseIsMobile(b))
        /\ error' = NoError
        /\ lastEvent' = "viewport"
        /\ UNCHANGED <<props, calls>>

\* variant of Click: the container keeps an open-state of its own and flips
\* it when clicked
ClickUncontrolled ==
    /\ Len(calls) < MaxCalls
    /\ LET r == InvokeOptional(tree.onClick, calls)
       IN  /\ calls' = r.calls
           /\ error' = r.error
    /\ tree' = [tree EXCEPT !.dataOpen = BoolAttr(tree.dataOpen = "false")]
    /\ lastEvent' = "click"
    /\ UNCHANGED <<mockReturn, props>>

\* screen.getByTestId('dialog' | 'drawer').click(): the container's onClick runs
Click ==
    /\ Len(calls) < MaxCalls
    /\ LET r == InvokeOptional(tree.onClick, calls)
       IN  /\ calls' = r.calls
           /\ error' = r.error
    /\ lastEvent' = "click"
    /\ UNCHANGED <<mockReturn, props, tree>>

\* jest.clearAllMocks(): the recorded calls are dropped
ClearAllMocks ==
    /\ calls # <<>>
    /\ calls' = <<>>
    /\ error' = NoError
    /\ lastEvent' = "clear"
    /\ UNCHANGED <<mockReturn, props, tree>>

Next == Rerender \/ ViewportChange \/ Click \/ ClearAllMocks

Spec == Init /\ [][Next]_vars

\* ------------------------------------------- renders with longer texts

\* the titles and descriptions of the renders that vary only the texts
LongTexts == SeqsUpTo(Chars, MaxLongTextLen)

\* render(<ResponsiveDialog {...defaultProps} title={t} description={d} />)
InitText ==
    /\ mockReturn \in BOOLEAN
    /\ props \in [title : LongTexts, description : LongTexts, children : {<<Child(1)>>},
                  open : {TRUE}, onOpenChange : {"onOpenChange"}]
    /\ tree = ResponsiveDialog(props, UseIsMobile(mockReturn))
    /\ calls = <<>>
    /\ error = NoError
    /\ lastEvent = "render"

\* rerender with another title or another description
RerenderText ==
    \E t \in LongTexts :
        \E p \in {[props EXCEPT !.title = t], [props EXCEPT !.description = t]} :
            /\ props' = p
            /\ tree' = ResponsiveDialog(p, UseIsMobile(mockReturn))
            /\ error' = NoError
            /\ lastEvent' = "render"
            /\ UNCHANGED <<mockReturn, calls>>

NextText == RerenderText \/ ViewportChange

SpecText == InitText /\ [][NextText]_vars

\* ------------------------------------------------------- DashboardCommand

\* the values a test hands over as open: booleans, the non-boolean 1, 0, ''
\* and 'true', and undefined; each with its type and its string form
JsTrue == [type |-> "boolean", lit |-> "true"]

JsFalse == [type |-> "boolean", lit |-> "false"]

JsOne == [type |-> "number", lit |-> "1"]

JsZero == [type |-> "number", lit |-> "0"]

JsEmptyString == [type |-> "string", lit |-> ""]

JsStringTrue == [type |-> "string", lit |-> "true"]

JsUndefined == [type |-> "undefined", lit |-> "undefined"]

OpenValues == {JsTrue, JsFalse, JsOne, JsZero, JsEmptyString, JsStringTrue, JsUndefined}

\* Boolean(v)
Truthy(v) == v \in {JsTrue, JsOne, JsStringTrue}

\* v.toString() throws a TypeError for undefined
ToStringThrows(v) == v.type = "undefined"

\* v.toString() where it does not throw
JsToString(v) == v.lit

\* the values a test hands over as setOpen: undefined, null and two jest.fn()
SetOpenValues == {Undefined, "null", "mockSetOpen", "alternativeSetOpen"}

CmdPropsSet == [open : OpenValues, setOpen : SetOpenValues]

\* the props of an element that is not the component's root
NoProps == [open |-> [type |-> "none", lit |-> ""], onOpenChange |-> ""]

CmdEl(tag, testid, role, placeholder, dataOpen, onClick, kids) ==
    [tag |-> tag, testid |-> testid, role |-> role, placeholder |-> placeholder,
     dataOpen |-> dataOpen, onClick |-> onClick, text |-> <<>>, kids |-> kids,
     received |-> NoProps]

CmdText(s) ==
    [tag |-> "#text", testid |-> "", role |-> "", placeholder |-> "",
     dataOpen |-> "", onClick |-> NoHandler, text |-> s, kids |-> <<>>,
     received |-> NoProps]

\* the closure () => onOpenChange && onOpenChange(false) of the close button
CloseClosure(onOpenChange) == [present |-> TRUE, fn |-> onOpenChange, arg |-> FALSE]

\* variant of InvokeGuarded: onOpenChange(false) without the && guard, a
\* TypeError when onOpenChange is undefined or null
InvokeUnguarded(h, log) ==
    IF ~h.present THEN [calls |-> log, error |-> NoError]
    ELSE IF h.fn \in {Undefined, "null"} THEN [calls |-> log, error |-> "TypeError"]
    ELSE JestFn(h.fn, h.arg, log)

\* running the closure: onOpenChange && onOpenChange(arg) does nothing when
\* onOpenChange is undefined or null, and otherwise calls it
InvokeGuarded(h, log) ==
    IF ~h.present \/ h.fn \in {Undefined, "null"}
    THEN [calls |-> log, error |-> NoError]
    ELSE JestFn(h.fn, h.arg, log)

\* the CommandInput mock
CommandInput(placeholder) ==
    CmdEl("input", "command-input", "", placeholder, "", NoHandler, <<>>)

\* the CommandList mock
CommandList(children) == CmdEl("div", "command-list", "listbox", "", "", NoHandler, children)

\* the CommandItem mock, with a text child
CommandItem(text) ==
    CmdEl("div", "command-item", "option", "", "", NoHandler, <<CmdText(text)>>)

\* the CommandResponsiveDialog mock: data-open={open.toString()}, the children
\* and then the close button; open.toString() throws for undefined
CommandResponsiveDialog(children, open, onOpenChange) ==
    IF ToStringThrows(open)
    THEN [threw |-> TRUE, nodes |-> <<>>]
    ELSE [threw |-> FALSE,
          nodes |-> <<CmdEl("div", "command-dialog", "", "", JsToString(open), NoHandler,
                            children
                            \o <<CmdEl("button", "close-button", "", "", "",
                                       CloseClosure(onOpenChange),
                                       <<CmdText(<<"C", "l", "o", "s", "e">>)>>)>>)>>]

\* variant of DashboardCommand: open is handed on as a boolean, !!open
DashboardCommandCoerced(p) ==
    [open |-> IF Truthy(p.open) THEN JsTrue ELSE JsFalse,
     onOpenChange |-> p.setOpen,
     children |-> <<CommandInput("Find a meeting or agnet"),
                    CommandList(<<CommandItem(<<"T", "e", "s", "t">>),
                                  CommandItem(<<"T", "e", "s", "t", "2">>)>>)>>]

\* variant of DashboardCommand: setOpen is not handed on as onOpenChange
DashboardCommandNoCallback(p) ==
    [open |-> p.open,
     onOpenChange |-> Undefined,
     children |-> <<CommandInput("Find a meeting or agnet"),
                    CommandList(<<CommandItem(<<"T", "e", "s", "t">>),
                                  CommandItem(<<"T", "e", "s", "t", "2">>)>>)>>]

\* DashboardCommand: what it hands to CommandResponsiveDialog, open and
\* setOpen as they came and the input and the list of two items as children
DashboardCommand(p) ==
    [open |-> p.open,
     onOpenChange |-> p.setOpen,
     children |-> <<CommandInput("Find a meeting or agnet"),
                    CommandList(<<CommandItem(<<"T", "e", "s", "t">>),
                                  CommandItem(<<"T", "e", "s", "t", "2">>)>>)>>]

\* render(<DashboardCommand {...p} />): the document and what the render
\* threw; the document root records the props CommandResponsiveDialog was
\* called with, and is empty when the render threw
RenderCommand(p) ==
    LET e == DashboardCommand(p)
        r == CommandResponsiveDialog(e.children, e.open, e.onOpenChange)
    IN  [tree |-> [CmdEl("div", "", "", "", "", NoHandler, r.nodes)
                      EXCEPT !.received = [open |-> e.open, onOpenChange |-> e.onOpenChange]],
         error |-> IF r.threw THEN "TypeError" ELSE NoError]

\* render(<DashboardCommand open={...} setOpen={...} />)
InitCmd ==
    /\ mockReturn = FALSE
    /\ props \in CmdPropsSet
    /\ tree = RenderCommand(props).tree
    /\ calls = <<>>
    /\ error = RenderCommand(props).error
    /\ lastEvent = "render"

\* rerender(<DashboardCommand open={...} setOpen={...} />)
RerenderCmd ==
    \E p \in CmdPropsSet :
        /\ props' = p
        /\ tree' = RenderCommand(p).tree
        /\ error' = RenderCommand(p).error
        /\ lastEvent' = "render"
        /\ UNCHANGED <<mockReturn, calls>>

\* fireEvent.click(screen.getByTestId('close-button'))
ClickClose ==
    /\ Len(calls) < MaxCalls
    /\ \E d \in Range(tree.kids) :
          \E b \in Range(d.kids) :
              /\ b.testid = "close-button"
              /\ LET r == InvokeGuarded(b.onClick, calls)
                 IN  /\ calls' = r.calls
                     /\ error' = r.error
    /\ lastEvent' = "click"
    /\ UNCHANGED <<mockReturn, props, tree>>

NextCmd == RerenderCmd \/ ClickClose \/ ClearAllMocks

SpecCmd == InitCmd /\ [][NextCmd]_vars

\* ------------------------------------------- renders counted at the hook

\* a recorded call of mockUseIsMobile; arg holds the value the call returned
HookCall(value) == [fn |-> "useIsMobile", arg |-> value]

IsHookCall(c) == c.fn = "useIsMobile"

IsCallbackCall(c) == c.fn # "useIsMobile"

\* mockUseIsMobile.mock.calls within the shared log
HookCalls(log) == SelectSeq(log, IsHookCall)

\* variant of CallUseIsMobile: the call is answered and not recorded
CallUseIsMobileUnrecorded(configured, log) ==
    [value |-> UseIsMobile(configured), log |-> log]

\* one call of the mocked hook (a jest.fn): answered with the configured value
\* and recorded
CallUseIsMobile(configured, log) ==
    [value |-> UseIsMobile(configured),
     log |-> Append(log, HookCall(UseIsMobile(configured)))]

\* one render of ResponsiveDialog: the hook is read once and the value read
\* selects the container
RenderResponsiveDialog(p, configured, log) ==
    LET h == CallUseIsMobile(configured, log)
    IN  [tree |-> ResponsiveDialog(p, h.value), log |-> h.log]

\* defaultProps with the open prop replaced
DefaultProps(o) ==
    [title |-> <<"A">>, description |-> <<"A">>, children |-> <<Child(1)>>,
     open |-> o, onOpenChange |-> "onOpenChange"]

\* render(<ResponsiveDialog {...defaultProps} />) with the hook's calls counted
InitHook ==
    /\ mockReturn \in BOOLEAN
    /\ props \in {DefaultProps(o) : o \in BOOLEAN}
    /\ LET r == RenderResponsiveDialog(props, mockReturn, <<>>)
       IN  /\ tree = r.tree
           /\ calls = r.log
    /\ error = NoError
    /\ lastEvent = "render"

\* rerender(<ResponsiveDialog {...defaultProps} open={o} />)
RerenderHook ==
    /\ Len(HookCalls(calls)) < MaxRenders
    /\ \E o \in BOOLEAN :
        /\ props' = DefaultProps(o)
        /\ LET r == RenderResponsiveDialog(DefaultProps(o), mockReturn, calls)
           IN  /\ tree' = r.tree
               /\ calls' = r.log
    /\ error' = NoError
    /\ lastEvent' = "render"
    /\ UNCHANGED mockReturn

\* mockUseIsMobile.mockReturnValue(b); rerender(<ResponsiveDialog {...props} />)
ViewportChangeHook ==
    /\ Len(HookCalls(calls)) < MaxRenders
    /\ \E b \in BOOLEAN :
        /\ b # mockReturn
        /\ mockReturn' = b
        /\ LET r == RenderResponsiveDialog(props, b, calls)
           IN  /\ tree' = r.tree
               /\ calls' = r.log
    /\ error' = NoError
    /\ lastEvent' = "viewport"
    /\ UNCHANGED props

\* the container's click, with the hook's calls in the same log
ClickHook ==
    /\ Len(SelectSeq(calls, IsCallbackCall)) < MaxCalls
    /\ LET r == InvokeOptional(tree.onClick, calls)
       IN  /\ calls' = r.calls
           /\ error' = r.error
    /\ lastEvent' = "click"
    /\ UNCHANGED <<mockReturn, props, tree>>

NextHook == RerenderHook \/ ViewportChangeHook \/ ClickHook \/ ClearAllMocks

SpecHook == InitHook /\ [][NextHook]_vars

\* ---------------------------------------------------- two mounted instances

\* two ResponsiveDialogs rendered side by side
Instances == {1, 2}

Other(i) == IF i = 1 THEN 2 ELSE 1

\* each instance is given a jest.fn of its own as onOpenChange
InstanceCallback(i) == IF i = 1 THEN "onOpenChange" ELSE "otherOnOpenChange"

\* the props of instance i: its own callback, any title of one character and
\* any open value
InstanceProps(i) ==
    {[title |-> t, description |-> <<"A">>, children |-> <<Child(i)>>,
      open |-> o, onOpenChange |-> InstanceCallback(i)] :
        t \in Texts \ {<<>>}, o \in BOOLEAN}

\* what happened last, and to which instance
Event(kind, i) == [kind |-> kind, instance |-> i]

\* variant of ClickTarget: the click lands on the first instance's container
ClickTargetFirst(trees, i) == trees[1].onClick

\* the handler a click on instance i's container runs
ClickTarget(trees, i) == trees[i].onClick

\* both instances rendered under the same mocked viewport value
InitTwo ==
    /\ mockReturn \in BOOLEAN
    /\ props \in [Instances -> UNION {InstanceProps(i) : i \in Instances}]
    /\ \A i \in Instances : props[i] \in InstanceProps(i)
    /\ tree = [i \in Instances |-> ResponsiveDialog(props[i], UseIsMobile(mockReturn))]
    /\ calls = <<>>
    /\ error = NoError
    /\ lastEvent = Event("render", 2)

\* rerender of instance i with some of its props replaced
RerenderTwo ==
    \E i \in Instances : \E p \in InstanceProps(i) :
        /\ props' = [props EXCEPT ![i] = p]
        /\ tree' = [tree EXCEPT ![i] = ResponsiveDialog(p, UseIsMobile(mockReturn))]
        /\ error' = NoError
        /\ lastEvent' = Event("render", i)
        /\ UNCHANGED <<mockReturn, calls>>

\* mockUseIsMobile.mockReturnValue(b); rerender of instance i
ViewportChangeTwo ==
    \E i \in Instances : \E b \in BOOLEAN :
        /\ b # mockReturn
        /\ mockReturn' = b
        /\ tree' = [tree EXCEPT ![i] = ResponsiveDialog(props[i], UseIsMobile(b))]
        /\ error' = NoError
        /\ lastEvent' = Event("viewport", i)
        /\ UNCHANGED <<props, calls>>

\* a click on the container of instance i
ClickTwo ==
    \E i \in Instances :
        /\ Len(calls) < MaxCalls
        /\ LET r == InvokeOptional(ClickTarget(tree, i), calls)
           IN  /\ calls' = r.calls
               /\ error' = r.error
        /\ lastEvent' = Event("click", i)
        /\ UNCHANGED <<mockReturn, props, tree>>

NextTwo == RerenderTwo \/ ViewportChangeTwo \/ ClickTwo

SpecTwo == InitTwo /\ [][NextTwo]_vars

\* ------------------------------------------------------- the agents Page
\* In this part mockReturn holds the status of the agents query in the query
\* client, props the state of the mounted AgentsView, tree what Page returned
\* and calls the calls Page made, oldest first.

\* the status of the agents.getMany query in the query client
QueryStatuses == {"idle", "pending", "success", "error"}

\* what the mounted AgentsView is doing: waiting for its data, showing it, or
\* it has raised an error while rendering
ViewStates == {"waiting", "ready", "raised"}

\* an element of the tree Page returns; state is the state prop of a
\* HydrationBoundary, fallback the fallback prop of a boundary
PageEl(type, state, fallback, kids) ==
    [type |-> type, state |-> state, fallback |-> fallback, kids |-> kids]

\* nothing returned yet
NoPage == PageEl("none", "", <<>>, <<>>)

AgentsView == PageEl("AgentsView", "", <<>>, <<>>)

AgentsViewLoading == PageEl("AgentsViewLoading", "", <<>>, <<>>)

AgentsViewError == PageEl("AgentsViewError", "", <<>>, <<>>)

\* queryClient.prefetchQuery(options): fresh data is left alone, anything else
\* starts a fetch (or joins the one in flight); the status is the query's
\* status when the call returns
PrefetchQuery(q) == IF q = "success" THEN "success" ELSE "pending"

\* dehydrate(queryClient): the snapshot taken at the time of the call
Dehydrate(q) == q

\* variant of VoidPrefetch: await queryClient.prefetchQuery(...), which holds
\* Page back while the fetch is in flight
AwaitPrefetch(q) == q # "pending"

\* void queryClient.prefetchQuery(...): the promise is dropped and Page goes
\* on at once; TRUE when Page goes on to its return statement
VoidPrefetch(q) == TRUE

\* variant of PageTree: the view sits in the suspense boundary directly
PageTreeNoErrorBoundary(state) ==
    PageEl("HydrationBoundary", state, <<>>,
        <<PageEl("Suspense", "", <<AgentsViewLoading>>, <<AgentsView>>)>>)

\* the tree of Page's return statement
PageTree(state) ==
    PageEl("HydrationBoundary", state, <<>>,
        <<PageEl("Suspense", "", <<AgentsViewLoading>>,
            <<PageEl("ErrorBoundary", "", <<AgentsViewError>>, <<AgentsView>>)>>)>>)

\* a call recorded in the order it was made, with the query's status after it
PageCall(fn, q) == [fn |-> fn, arg |-> q]

\* Page(): the query client is fetched, the prefetch started, and the tree
\* returned with the dehydrated state of that moment
Page(q, log) ==
    LET started == PrefetchQuery(q)
        goesOn == VoidPrefetch(started)
    IN  [query |-> started,
         log |-> log \o <<PageCall("getQueryClient", q), PageCall("prefetchQuery", started)>>
                     \o (IF goesOn THEN <<PageCall("dehydrate", started)>> ELSE <<>>),
         tree |-> IF goesOn THEN PageTree(Dehydrate(started)) ELSE NoPage,
         error |-> NoError]

IsRequest(c) == c.fn = "getQueryClient"

\* before the first request: the query client may hold the query already
InitPage ==
    /\ mockReturn \in {"idle", "success", "error"}
    /\ props = [view |-> "unmounted"]
    /\ tree = NoPage
    /\ calls = <<>>
    /\ error = NoError
    /\ lastEvent = "start"

\* a request: Page runs to its return, and the returned tree is mounted with
\* the view in some state
ServePage ==
    /\ Len(SelectSeq(calls, IsRequest)) < MaxRequests
    /\ LET r == Page(mockReturn, calls)
       IN  /\ mockReturn' = r.query
           /\ tree' = r.tree
           /\ calls' = r.log
           /\ error' = r.error
           /\ \E v \in ViewStates :
                props' = [view |-> IF r.tree = NoPage THEN "unmounted" ELSE v]
    /\ lastEvent' = "page"

\* the fetch started by the prefetch ends, with data or with a failure
PrefetchSettles ==
    /\ mockReturn = "pending"
    /\ \E q \in {"success", "error"} : mockReturn' = q
    /\ lastEvent' = "settle"
    /\ UNCHANGED <<props, tree, calls, error>>

\* the mounted view gets its data, waits again, or raises; a view that has
\* raised stays unmounted behind the error boundary (no reset is configured)
ViewChanges ==
    /\ props.view \in {"waiting", "ready"}
    /\ \E v \in ViewStates \ {props.view} : props' = [view |-> v]
    /\ lastEvent' = "view"
    /\ UNCHANGED <<mockReturn, tree, calls, error>>

NextPage == ServePage \/ PrefetchSettles \/ ViewChanges

SpecPage == InitPage /\ [][NextPage]_vars

\* ------------------------------------------- what the mounted Page shows

\* what a subtree commits: the leaves shown, and what it passes up to its
\* parent ("suspend" from a waiting view, "error" from one that raised)
Committed(shown, signal) == [shown |-> shown, signal |-> signal]

RECURSIVE Commit(_, _)
RECURSIVE CommitAll(_, _, _)

\* siblings in order; the first of them to suspend or raise decides
CommitAll(kids, i, view) ==
    IF i > Len(kids) THEN Committed(<<>>, "none")
    ELSE LET head == Commit(kids[i], view)
             rest == CommitAll(kids, i + 1, view)
         IN  IF head.signal # "none" THEN Committed(<<>>, head.signal)
             ELSE IF rest.signal # "none" THEN Committed(<<>>, rest.signal)
             ELSE Committed(head.shown \o rest.shown, "none")

\* Suspense shows its fallback while something below it suspends
\* ErrorBoundary shows its fallback once something below it has raised
\* HydrationBoundary shows its children
Commit(n, view) ==
    IF n.type = "AgentsView"
    THEN CASE view = "waiting" -> Committed(<<>>, "suspend")
           [] view = "raised" -> Committed(<<>>, "error")
           [] OTHER -> Committed(<<n.type>>, "none")
    ELSE IF n.type \in {"AgentsViewLoading", "AgentsViewError"}
    THEN Committed(<<n.type>>, "none")
    ELSE LET below == CommitAll(n.kids, 1, view)
         IN  IF n.type = "Suspense" /\ below.signal = "suspend"
             THEN CommitAll(n.fallback, 1, view)
             ELSE IF n.type = "ErrorBoundary" /\ below.signal = "error"
             THEN CommitAll(n.fallback, 1, view)
             ELSE below

\* ------------------------------------- the selector and DashboardCommand

\* the mounted component is the ResponsiveDialog (else the DashboardCommand)
IsSelector == "title" \in DOMAIN props

\* either component is rendered and then driven by its own operations
InitBoth == Init \/ InitCmd

NextBoth == (IsSelector /\ Next) \/ (~IsSelector /\ NextCmd)

SpecBoth == InitBoth /\ [][NextBoth]_vars

\* ------------------------------------------------------------- DOM queries

RECURSIVE Descendants(_)
\* a node and everything below it
Descendants(n) == {n} \cup UNION {Descendants(n.kids[i]) : i \in DOMAIN n.kids}

\* screen.queryAllByTestId(id)
QueryAllByTestId(root, id) == {n \in Descendants(root) : n.testid = id}

RECURSIVE ConcatTexts(_, _)
RECURSIVE TextContent(_)
ConcatTexts(kids, i) ==
    IF i > Len(kids) THEN <<>> ELSE TextContent(kids[i]) \o ConcatTexts(kids, i + 1)

\* node.textContent: the text nodes below it, in document order
TextContent(n) == IF n.tag = "#text" THEN n.text ELSE ConcatTexts(n.kids, 1)


\* screen.queryByTestId(id) finds something
Mounted(root, id) == QueryAllByTestId(root, id) # {}

\* the test id of the container the viewport value b selects
ContainerId(b) == IF b THEN "drawer" ELSE "dialog"

\* the containers of either kind in a tree
Containers(root) == QueryAllByTestId(root, "dialog") \cup QueryAllByTestId(root, "drawer")

\* the texts of the title elements (dialog-title, drawer-title) of a tree
TitleTexts(root) ==
    {TextContent(n) :
        n \in QueryAllByTestId(root, "dialog-title") \cup QueryAllByTestId(root, "drawer-title")}

\* the texts of the description elements of a tree
DescriptionTexts(root) ==
    {TextContent(n) :
        n \in QueryAllByTestId(root, "dialog-description")
              \cup QueryAllByTestId(root, "drawer-description")}

RECURSIVE DocOrderAll(_, _)
RECURSIVE DocOrder(_)
DocOrderAll(kids, i) ==
    IF i > Len(kids) THEN <<>> ELSE DocOrder(kids[i]) \o DocOrderAll(kids, i + 1)

\* a node and everything below it, in document order
DocOrder(n) == <<n>> \o DocOrderAll(n.kids, 1)

IsBodyNode(n) == n.testid \in Range(ChildTestIds)

\* the body nodes a tree shows, in document order
BodyShown(root) == SelectSeq(DocOrder(root), IsBodyNode)

\* the regions with class p-4 in a tree
PaddedRegions(root) == {n \in Descendants(root) : n.className = "p-4"}

\* ------------------------------------------------------------------ claims

\* C1: after every render exactly one of the dialog container and the drawer
\* container is in the tree, the drawer iff the viewport value is true and
\* the dialog iff it is false, whatever open is.
C1_ExactlyOneContainer ==
    /\ Cardinality(QueryAllByTestId(tree, "drawer")) = (IF mockReturn THEN 1 ELSE 0)
    /\ Cardinality(QueryAllByTestId(tree, "dialog")) = (IF mockReturn THEN 0 ELSE 1)

C1_Witness ==
    /\ lastEvent = "render"
    /\ mockReturn
    /\ ~props.open
    /\ Mounted(tree, "drawer")
    /\ ~Mounted(tree, "dialog")

\* C2: after any sequence of renders the open-state of the mounted container
\* (its data-open) is the open value of the latest render, unchanged, in the
\* dialog and in the drawer variant.
C2_OpenStatePassThrough ==
    /\ Containers(tree) # {}
    /\ \A c \in Containers(tree) :
          c.dataOpen = (IF props.open THEN "true" ELSE "false")

C2_Witness ==
    /\ lastEvent = "render"
    /\ mockReturn
    /\ ~props.open
    /\ \E c \in QueryAllByTestId(tree, "drawer") : c.dataOpen = "false"

\* C3: a click on the mounted container, which requests the visibility
\* opposite to the one it shows, calls the supplied onOpenChange exactly once
\* with that requested value; a close request while open is true calls it
\* once with false.
C3_RequestNotifiesOnce ==
    [][(lastEvent' = "click" /\ props.onOpenChange # Undefined)
        => /\ calls' = Append(calls, [fn |-> props.onOpenChange,
                                      arg |-> (tree.dataOpen = "false")])
           /\ props.open => calls'[Len(calls')].arg = FALSE]_vars

C3_Witness ==
    /\ lastEvent = "click"
    /\ props.open
    /\ props.onOpenChange = "onOpenChange"
    /\ calls = <<[fn |-> "onOpenChange", arg |-> FALSE]>>

\* C4: when the viewport value changes between two renders, the container the
\* new value selects is mounted afterwards and the one mounted before is
\* gone, and the title, the description and the body shown are those shown
\* before the change.
C4_SwapKeepsContent ==
    [][(mockReturn' # mockReturn)
        => /\ Mounted(tree, ContainerId(mockReturn))
           /\ Mounted(tree', ContainerId(mockReturn'))
           /\ ~Mounted(tree', ContainerId(mockReturn))
           /\ TitleTexts(tree') = TitleTexts(tree)
           /\ TitleTexts(tree') # {}
           /\ DescriptionTexts(tree') = DescriptionTexts(tree)
           /\ DescriptionTexts(tree') # {}
           /\ BodyShown(tree') = BodyShown(tree)]_vars

C4_Witness ==
    /\ lastEvent = "viewport"
    /\ mockReturn
    /\ Mounted(tree, "drawer")
    /\ ~Mounted(tree, "dialog")
    /\ TitleTexts(tree) = {<<"A">>}
    /\ Len(BodyShown(tree)) = 2

\* C5: with no onOpenChange supplied, a render raises nothing, and a click on
\* the mounted container raises nothing and changes neither the tree nor the
\* props nor the recorded calls.
C5_NoCallbackIsNoOp ==
    /\ []((lastEvent \in {"render", "viewport"} /\ props.onOpenChange = Undefined)
            => (error = NoError /\ Containers(tree) # {}))
    /\ [][(lastEvent' = "click" /\ props.onOpenChange = Undefined)
            => /\ error' = NoError
               /\ tree' = tree
               /\ props' = props
               /\ calls' = calls
               /\ mockReturn' = mockReturn]_vars

C5_Witness ==
    /\ lastEvent = "click"
    /\ props.onOpenChange = Undefined
    /\ error = NoError
    /\ calls = <<>>

\* C6: when the supplied onOpenChange throws, a click on the mounted container
\* throws that error at the party that clicked, and the callback has been
\* called with the requested value (false for a close while open is true).
C6_CallbackErrorPropagates ==
    (lastEvent = "click" /\ props.onOpenChange = "faultyCallback")
        => /\ error = "Callback error"
           /\ calls # <<>>
           /\ calls[Len(calls)] = [fn |-> "faultyCallback", arg |-> ~props.open]

C6_Witness ==
    /\ lastEvent = "click"
    /\ props.open
    /\ props.onOpenChange = "faultyCallback"
    /\ error = "Callback error"
    /\ calls = <<[fn |-> "faultyCallback", arg |-> FALSE]>>

\* C7: for every title and description (empty, longer, with markup-special
\* characters) the text of the title element is the title and the text of
\* the description element is the description, character for character, in
\* the mounted container.
C7_TextVerbatim ==
    /\ TitleTexts(tree) = {props.title}
    /\ DescriptionTexts(tree) = {props.description}

C7_Witness ==
    /\ ~mockReturn
    /\ lastEvent = "render"
    /\ props.title = <<"<", "A", "<">>
    /\ props.description = <<>>
    /\ TitleTexts(tree) = {<<"<", "A", "<">>}
    /\ DescriptionTexts(tree) = {<<>>}

\* C8: for the same title, description, body and open, the variant that is
\* mounted and the other variant show the same title, the same description
\* and the same body; their container kinds differ, and exactly one of them
\* has the padded region.
C8_VariantsShowSameContent ==
    LET other == ResponsiveDialog(props, UseIsMobile(~mockReturn))
    IN  /\ TitleTexts(tree) = TitleTexts(other)
        /\ TitleTexts(tree) # {}
        /\ DescriptionTexts(tree) = DescriptionTexts(other)
        /\ DescriptionTexts(tree) # {}
        /\ BodyShown(tree) = BodyShown(other)
        /\ BodyShown(tree) = props.children
        /\ {c.dataOpen : c \in Containers(tree)} = {c.dataOpen : c \in Containers(other)}
        /\ {c.testid : c \in Containers(tree)} # {c.testid : c \in Containers(other)}
        /\ (PaddedRegions(tree) = {}) # (PaddedRegions(other) = {})

C8_Witness ==
    /\ mockReturn
    /\ props.title = <<"A">>
    /\ props.description = <<"<">>
    /\ Len(props.children) = 2
    /\ TitleTexts(ResponsiveDialog(props, UseIsMobile(FALSE))) = {<<"A">>}
    /\ DescriptionTexts(tree) = {<<"<">>}

\* the content element of a tree's container: the kids of the tree with a
\* *-content test id
Contents(root) ==
    {c \in Range(root.kids) : c.testid \in {"dialog-content", "drawer-content"}}

\* C9: the body sits in a region with class p-4 inside the container's
\* content iff the drawer variant is the one mounted; the dialog variant has
\* the body directly in its content, with no such region.
C9_PaddedOnlyInDrawer ==
    /\ (PaddedRegions(tree) # {}) <=> Mounted(tree, "drawer")
    /\ Mounted(tree, "drawer")
          => /\ Cardinality(PaddedRegions(tree)) = 1
             /\ \A w \in PaddedRegions(tree) :
                   /\ w.kids = props.children
                   /\ \E c \in Contents(tree) : w \in Range(c.kids)
    /\ Mounted(tree, "dialog")
          => \E c \in Contents(tree) : SelectSeq(c.kids, IsBodyNode) = props.children

C9_Witness ==
    /\ mockReturn
    /\ Len(props.children) = 1
    /\ \E c \in QueryAllByTestId(tree, "drawer-content") :
          \E w \in Range(c.kids) : w.className = "p-4" /\ w.kids = props.children

\* the header region of a tree: the *-header kids of its content
Headers(root) ==
    {h \in UNION {Range(c.kids) : c \in Contents(root)} :
        h.testid \in {"dialog-header", "drawer-header"}}

\* C10: in the dialog variant and in the drawer variant the title is the one
\* rank-1 heading of the tree and sits in the header region of the
\* container's content, and the description is a paragraph element in that
\* same header region.
C10_TitleIsTopHeadingInHeader ==
    /\ Cardinality(Headers(tree)) = 1
    /\ \A h \in Headers(tree) :
          /\ \E t \in Range(h.kids) :
                /\ t.tag = "h1"
                /\ t.testid = (IF mockReturn THEN "drawer-title" ELSE "dialog-title")
                /\ {n \in Descendants(tree) : n.tag \in {"h1", "h2", "h3"}} = {t}
          /\ \E d \in Range(h.kids) :
                /\ d.tag = "p"
                /\ d.testid = (IF mockReturn THEN "drawer-description"
                                             ELSE "dialog-description")

C10_Witness ==
    /\ mockReturn
    /\ props.title = <<"A">>
    /\ \E h \in QueryAllByTestId(tree, "drawer-header") :
          \E t \in Range(h.kids) : t.tag = "h1" /\ TextContent(t) = <<"A">>

\* C11: for a body of zero, one or several nodes the container is rendered
\* with its content and header, and the body shown is exactly the supplied
\* nodes, all of them, in the supplied order: after the header in the dialog
\* content, inside the padded region in the drawer content.
C11_BodyNodesAllInOrder ==
    /\ Containers(tree) # {}
    /\ Cardinality(Contents(tree)) = 1
    /\ Cardinality(Headers(tree)) = 1
    /\ BodyShown(tree) = props.children
    /\ \A c \in Contents(tree) :
          IF mockReturn
          THEN /\ Len(c.kids) = 2
               /\ c.kids[1] \in Headers(tree)
               /\ c.kids[2].kids = props.children
          ELSE /\ Len(c.kids) = 1 + Len(props.children)
               /\ c.kids[1] \in Headers(tree)
               /\ SubSeq(c.kids, 2, Len(c.kids)) = props.children

C11_Witness ==
    /\ ~mockReturn
    /\ props.children = <<Child(2), Child(1)>>
    /\ BodyShown(tree) = <<Child(2), Child(1)>>
    /\ Mounted(tree, "dialog-header")

\* ------------------------------------------- claims about DashboardCommand

IsCommandItem(n) == n.testid = "command-item"

\* screen.getAllByTestId('command-item'), as their texts in document order
ItemTexts(root) ==
    LET items == SelectSeq(DocOrder(root), IsCommandItem)
    IN  [i \in DOMAIN items |-> TextContent(items[i])]

\* the functions among the setOpen values
SetOpenFunctions == {"mockSetOpen", "alternativeSetOpen"}

\* C12: after any sequence of re-renders with any open value and any setOpen,
\* the document holds exactly one input, with placeholder "Find a meeting or
\* agnet", and exactly two items, "Test" then "Test2".
C12_StaticRowsAlways ==
    /\ Cardinality(QueryAllByTestId(tree, "command-input")) = 1
    /\ \A i \in QueryAllByTestId(tree, "command-input") :
          i.placeholder = "Find a meeting or agnet"
    /\ ItemTexts(tree) = <<(<<"T", "e", "s", "t">>), (<<"T", "e", "s", "t", "2">>)>>

\* C13: after any sequence of re-renders the open value the command dialog
\* has received is the open value of the latest render, the same value with
\* the same type, and the dialog shows its string form.
C13_OpenForwardedUncoerced ==
    /\ tree.received.open = props.open
    /\ \A d \in QueryAllByTestId(tree, "command-dialog") : d.dataOpen = props.open.lit
    /\ props.open # JsUndefined => Mounted(tree, "command-dialog")

C13_Witness ==
    /\ lastEvent = "render"
    /\ calls # <<>>
    /\ props.open = JsStringTrue
    /\ tree.received.open = JsStringTrue
    /\ \E d \in QueryAllByTestId(tree, "command-dialog") : d.dataOpen = "true"

\* C14: a click on the close button calls the setOpen of the latest render
\* exactly once, with false, and calls no setOpen of an earlier render.
C14_CloseCallsCurrentSetOpen ==
    [][(lastEvent' = "click" /\ props.setOpen \in SetOpenFunctions)
        => calls' = Append(calls, [fn |-> props.setOpen, arg |-> FALSE])]_vars

C14_Witness ==
    /\ lastEvent = "click"
    /\ props.setOpen = "alternativeSetOpen"
    /\ calls = <<[fn |-> "mockSetOpen", arg |-> FALSE],
                 [fn |-> "alternativeSetOpen", arg |-> FALSE]>>

C16_UndefinedOpenRenders ==
    (lastEvent = "render" /\ props.open = JsUndefined)
        => (error = NoError /\ Mounted(tree, "command-dialog"))

\* ------------------------------------------------ claims about the hook

\* C17: every render reads the viewport signal exactly once: the first render
\* leaves one recorded call of the hook, every later render adds exactly one
\* call, answered with the value configured at that render, and the container
\* rendered is the one that value selects; a click reads nothing.
C17_HookReadOncePerRender ==
    /\ Len(HookCalls(calls)) = 1
    /\ [][/\ lastEvent' \in {"render", "viewport"}
             => /\ HookCalls(calls') = Append(HookCalls(calls), HookCall(mockReturn'))
                /\ Containers(tree') = QueryAllByTestId(tree', ContainerId(mockReturn'))
                /\ Cardinality(Containers(tree')) = 1
          /\ lastEvent' = "click" => HookCalls(calls') = HookCalls(calls)]_vars

C17_Witness ==
    /\ lastEvent = "render"
    /\ HookCalls(calls) = <<HookCall(FALSE), HookCall(TRUE), HookCall(TRUE)>>
    /\ Mounted(tree, "drawer")

\* ------------------------------------------- claims about two instances

\* the calls recorded for the callback of instance i
CallsOf(log, i) == SelectSeq(log, LAMBDA c : c.fn = InstanceCallback(i))

\* C20: two instances do not interact: a click on one instance's container
\* calls that instance's callback once, with the negation of that instance's
\* open value, and calls nothing else; a click or a render of one instance
\* leaves the other instance's tree (container, open state, content) and
\* props as they were; and each tree shows its own instance's content.
C20_InstancesIndependent ==
    /\ [](\A i \in Instances :
            /\ \A c \in Containers(tree[i]) : c.dataOpen = BoolAttr(props[i].open)
            /\ TitleTexts(tree[i]) = {props[i].title}
            /\ BodyShown(tree[i]) = props[i].children)
    /\ [][\A i \in Instances :
            lastEvent'.instance = i
            => /\ tree'[Other(i)] = tree[Other(i)]
               /\ props'[Other(i)] = props[Other(i)]
               /\ CallsOf(calls', Other(i)) = CallsOf(calls, Other(i))
               /\ lastEvent'.kind = "click"
                  => /\ calls' = Append(calls, [fn |-> InstanceCallback(i),
                                                arg |-> ~props[i].open])
                     /\ tree' = tree
                     /\ props' = props
               /\ lastEvent'.kind # "click" => calls' = calls]_vars

C20_Witness ==
    /\ lastEvent = Event("click", 2)
    /\ calls = <<[fn |-> "onOpenChange", arg |-> FALSE],
                 [fn |-> "otherOnOpenChange", arg |-> TRUE]>>
    /\ Mounted(tree[1], "drawer")
    /\ Mounted(tree[2], "dialog")
    /\ props[1].open /\ ~props[2].open

\* ------------------------------------- claims about the command hierarchy

\* dialogChildren.findIndex(child => child.contains(target)): the positions
\* among parent's children whose subtree holds an element with test id id
ChildIndexes(parent, id) == {i \in DOMAIN parent.kids : Mounted(parent.kids[i], id)}

\* the hierarchy below one command dialog: it contains the input and the
\* list, the input in an earlier child than the list
InputThenList(d) ==
    /\ ChildIndexes(d, "command-input") # {}
    /\ ChildIndexes(d, "command-list") # {}
    /\ \A i \in ChildIndexes(d, "command-input") :
          \A j \in ChildIndexes(d, "command-list") : i < j

\* both rows of a tree are children of its list, none is elsewhere
RowsInList(root) ==
    /\ Cardinality(QueryAllByTestId(root, "command-item")) = 2
    /\ \A item \in QueryAllByTestId(root, "command-item") :
          \E l \in QueryAllByTestId(root, "command-list") : item \in Range(l.kids)

\* C21: in every render of DashboardCommand there is one command dialog, it
\* contains the input and the list, the input before the list, and both rows
\* are children of the list, none outside it.
C21_InputBeforeListRowsInList ==
    /\ Cardinality(QueryAllByTestId(tree, "command-dialog")) = 1
    /\ \A d \in QueryAllByTestId(tree, "command-dialog") : InputThenList(d)
    /\ RowsInList(tree)

\* ------------------------------------------- claims about the agents Page

\* C22: Page starts the prefetch before it produces its output and does not
\* wait for it: every request records getQueryClient, prefetchQuery and
\* dehydrate in this order and returns the tree with the fetch pending or
\* the data already there; when the fetch ends later, with data or with a
\* failure, the returned tree stays and nothing is raised; Page never fails.
C22_PrefetchNotAwaited ==
    /\ [](error = NoError)
    /\ [][/\ lastEvent' = "page"
             => /\ tree' = PageTree(Dehydrate(PrefetchQuery(mockReturn)))
                /\ mockReturn' = PrefetchQuery(mockReturn)
                /\ calls' = calls \o <<PageCall("getQueryClient", mockReturn),
                                       PageCall("prefetchQuery", mockReturn'),
                                       PageCall("dehydrate", mockReturn')>>
          /\ lastEvent' = "settle" => (tree' = tree /\ tree # NoPage /\ error' = NoError)]_vars

C22_Witness ==
    /\ lastEvent = "settle"
    /\ mockReturn = "error"
    /\ tree = PageTree("pending")
    /\ error = NoError

\* the types on the path from the root down through only children
RECURSIVE Nesting(_)
Nesting(n) == <<n.type>> \o (IF Len(n.kids) = 1 THEN Nesting(n.kids[1]) ELSE <<>>)

\* C23: in the tree Page returned the view is wrapped by the error boundary,
\* that by the suspense boundary, that by the hydration boundary; the mounted
\* tree shows exactly one of loading fallback, error fallback and view: the
\* loading fallback exactly while the view waits, the error fallback exactly
\* once the view has raised, and nothing is passed up out of the Page.
C23_BoundariesContainView ==
    tree # NoPage =>
        /\ Nesting(tree) = <<"HydrationBoundary", "Suspense", "ErrorBoundary", "AgentsView">>
        /\ LET c == Commit(tree, props.view)
           IN  /\ c.signal = "none"
               /\ Len(c.shown) = 1
               /\ c.shown[1] \in {"AgentsViewLoading", "AgentsViewError", "AgentsView"}
               /\ c.shown = <<"AgentsViewLoading">> <=> props.view = "waiting"
               /\ c.shown = <<"AgentsViewError">> <=> props.view = "raised"
               /\ c.shown = <<"AgentsView">> <=> props.view = "ready"

C23_Witness ==
    /\ lastEvent = "view"
    /\ props.view = "raised"
    /\ mockReturn = "success"
    /\ Commit(tree, props.view) = Committed(<<"AgentsViewError">>, "none")

\* ------------------------------------- claims about controlled visibility

\* the open-states on show: the data-open of every mounted container
ShownOpenState(root) ==
    {n.dataOpen : n \in QueryAllByTestId(root, "dialog")
                        \cup QueryAllByTestId(root, "drawer")
                        \cup QueryAllByTestId(root, "command-dialog")}

\* the caller supplied a callback (onOpenChange, or setOpen)
CallbackSupplied ==
    IF IsSelector THEN props.onOpenChange # Undefined
    ELSE props.setOpen \in SetOpenFunctions

\* C24: visibility is caller-controlled, for the selector and for
\* DashboardCommand: a click on the container (or the close button) leaves
\* the rendered tree, hence open-state, container type and content, and the
\* props as they were and at most notifies the callback; and the open-state on
\* show changes only in a render whose open value differs from the one before.
C24_VisibilityCallerControlled ==
    [][/\ lastEvent' = "click"
          => /\ tree' = tree
             /\ props' = props
             /\ mockReturn' = mockReturn
             /\ ShownOpenState(tree') = ShownOpenState(tree)
       /\ ShownOpenState(tree') # ShownOpenState(tree)
          => (lastEvent' = "render" /\ props'.open # props.open)]_vars

C24_Witness ==
    /\ lastEvent = "click"
    /\ ~IsSelector
    /\ props.open = JsTrue
    /\ calls = <<[fn |-> "mockSetOpen", arg |-> FALSE]>>
    /\ ShownOpenState(tree) = {"true"}

\* C25: the callback is called only on a request from the container, for the
\* selector and for DashboardCommand: no render, re-render or viewport swap
\* adds a call; a click adds exactly one call when a callback is supplied and
\* none otherwise; so between two resets of the mocks the calls recorded are
\* as many as the requests made while a callback was supplied.
C25_CallbackOnlyOnRequest ==
    [][/\ lastEvent' \in {"render", "viewport"} => calls' = calls
       /\ lastEvent' = "click"
          => IF CallbackSupplied
             THEN Len(calls') = Len(calls) + 1 /\ SubSeq(calls', 1, Len(calls)) = calls
             ELSE calls' = calls
       /\ lastEvent' = "clear" => calls' = <<>>]_vars

C25_Witness ==
    /\ lastEvent = "viewport"
    /\ IsSelector
    /\ Len(calls) = 2
    /\ Mounted(tree, "drawer")

====
